---- MODULE Spec2Model ----
(***************************************************************************)
(* Nagflux ingestion pipeline: the Elasticsearch sender-worker             *)
(* (target/elasticsearch/Worker.go), the external-file CSV collector       *)
(* (FileCollector), the Nagios spool-file scanner                          *)
(* (collector/spoolfile/nagiosSpoolfileCollector.go), the Livestatus       *)
(* connector (collector/livestatus) and helper.SanitizeInfluxInput.        *)
(*                                                                         *)
(* Goroutines are processes with a program position; a Go select is a      *)
(* nondeterministic choice among its ready cases; a time.After case is     *)
(* taken only while no communication case of the same select is ready      *)
(* (the timer is created on entry to the select).  An unbuffered channel   *)
(* is a rendezvous (one joint step of sender and receiver), a buffered     *)
(* channel is a bounded sequence.                                          *)
(***************************************************************************)
EXTENDS Integers, Sequences, FiniteSets, TLC

(***************************************************************************)
(* Bounds of the model.                                                    *)
(***************************************************************************)
\* records the collectors offer to the sender's result queue in one run
MaxRecords == 3
\* records offered to the result queue of a pool of two workers
PoolRecords == 2
\* stand-in for the flush threshold len(queries) == 10000 of Worker.run
BatchSize == 2
\* capacity of a result queue fed by the CSV collector
QueueCap == 1
\* stand-in for the capacity 100 of the spool scanner's jobs channel
JobsCap == 2

(***************************************************************************)
(* Program constants.                                                      *)
(***************************************************************************)
\* for i := 0; i < 3; i++ in Worker.sendBuffer
MaxPasses == 3

\* the sender-workers of one target; they share jobs, dumpFile and mutex
Workers == {"w1", "w2"}

VARIABLES
    \* ---- sender-worker (target/elasticsearch/Worker.go) ----
    jobs,          \* worker.jobs: the target's result queue
    produced,      \* number of records accepted into jobs so far
    wpc,           \* position of each worker goroutine
    probed,        \* what IsAlive() and DatabaseExists() returned in the
                   \* current iteration of run's loop
    queries,       \* run's local buffer `queries`
    lineQueries,   \* sendBuffer's local `lineQueries`
    drained,       \* readQueriesFromQueue's local `queries`
    sendErr,       \* sendBuffer's local `sendErr`
    pass,          \* sendBuffer's loop counter `i`
    trigger,       \* which select case of run called sendBuffer
    resp,          \* downstream answer to the worker's latest POST
    toWrite,       \* dumpQueries' call: [file, rest, ret]   
    quitInternal,  \* worker.quitInternal, buffered with capacity 1
    stopPc,        \* position of the caller inside Worker.Stop
    mutex,         \* the package-level mutex: its holder, or "free"
    dumpBase,      \* content of <base>
    dumpErrors,    \* content of <base>-errors
    dumpMode,      \* per dump file: whether it exists, its permission bits
    umask,         \* the process's file mode creation mask
    posted         \* lines the downstream accepted (2xx, no item errors)

sendVars == <<jobs, produced, wpc, probed, queries, lineQueries, drained, sendErr,
              pass, trigger, resp, toWrite, quitInternal, stopPc, mutex,
              dumpBase, dumpErrors, dumpMode, umask, posted>>

\* ---- collectors ----
VARIABLES
    pause,         \* config.IsAnyTargetOnPause(), set by the targets
    \* CSV collector (FileCollector)
    dir,           \* nfc.folder: per file [present, old, body]
    results,       \* nfc.results: one bounded queue per target
    fquit,         \* nfc.quit, buffered with capacity 1
    fpc,           \* position of FileCollector.run
    fstopPc,       \* position of the caller inside FileCollector.Stop
    fpause,        \* run's local `pause`
    fileList,      \* files of the range loop not yet finished
    parsed,        \* parseFile's result for the current file
    pIdx,          \* index of the record being offered
    tIdx,          \* index of the target queue it is offered to
    \* spool scanner (NagiosSpoolfileCollector) and its parser-workers
    spool,         \* names present in s.spoolDirectory
    syoung,        \* those modified less than MinFileAge ago
    sjobs,         \* s.jobs
    spc,           \* position of NagiosSpoolfileCollector.run
    sstopPc,       \* position of the caller inside Stop
    spause,        \* run's local `pause`
    sfiles,        \* entries of the range loop not yet pushed
    held           \* path each parser-worker took from s.jobs

fileVars == <<dir, results, fquit, fpc, fstopPc, fpause, fileList, parsed,
              pIdx, tIdx>>

spoolVars == <<spool, syoung, sjobs, spc, sstopPc, spause, sfiles, held>>

collectVars == <<pause, fileVars, spoolVars>>

\* ---- Livestatus connector (collector/livestatus) ----
VARIABLES
    live,          \* the connector's configuration and its peer's behaviour
    lpc,           \* position of connectToLivestatus
    lpos,          \* lines of the reply read so far
    csvOut,        \* rows received on the row channel, in order
    finished       \* values received on the completion channel, in order

liveVars == <<live, lpc, lpos, csvOut, finished>>

\* ---- helper.SanitizeInfluxInput (helper/influx_test.go) ----
VARIABLES
    input,         \* the string handed to SanitizeInfluxInput
    actual,        \* its return value
    hpc            \* position of the caller

helperVars == <<input, actual, hpc>>

libVars == <<liveVars, helperVars>>

vars == <<sendVars, collectVars, libVars>>

(***************************************************************************)
(* Sender-worker                                                           *)
(***************************************************************************)

\* downstream outcomes of one HTTP POST, as sendData can observe them
Responses == {"ok", "itemErrors", "http5xx", "connErr"}

\* a panic in any goroutine ends the process
Crashed == fpc = "Panicked" \/ \E w \in Workers : wpc[w] = "Panicked"

\* serialized form of a record
castJobToString(job) == <<"line", job>>

RECURSIVE castAll(_)
castAll(qs) ==
    IF qs = <<>> THEN <<>>
    ELSE <<castJobToString(Head(qs))>> \o castAll(Tail(qs))

\* error value returned by sendData for a downstream outcome.  "panic"
\* stands for printErrors' panic("") when log is set.
sendData(outcome, log) ==
    CASE outcome = "connErr"    -> "errorHTTPClient"
      [] outcome = "itemErrors" -> IF log THEN "panic" ELSE "nil"
      [] OTHER                  -> "nil"

\* the loop iteration has not called IsAlive() yet
NotProbed == [alive |-> FALSE, exists |-> FALSE]

\* the dump files of a target: <base> and <base>-errors
DumpFiles == {"base", "errors"}

\* permission bits: read and write for user, group and others; mode 0600
OwnerOnly == {"ur", "uw"}

\* the 0666 of os.Create
CreatePerm == {"ur", "uw", "gr", "gw", "or", "ow"}

\* umask 022 (the usual default) and umask 077
Umask022 == {"gw", "ow"}

Umask077 == {"gr", "gw", "or", "ow"}

Umasks == {Umask022, Umask077}

\* state after WorkerGenerator has been called for the workers in `started`
\* (worker.run is spawned, nobody has called Stop); the other worker ids of
\* the pool are not generated in this configuration
InitSend(started, masks) ==
    /\ jobs = <<>>
    /\ produced = 0
    /\ wpc = [w \in Workers |-> IF w \in started THEN "Probe" ELSE "Absent"]
    /\ probed = [w \in Workers |-> NotProbed]
    /\ queries = [w \in Workers |-> <<>>]
    /\ lineQueries = [w \in Workers |-> <<>>]
    /\ drained = [w \in Workers |-> <<>>]
    /\ sendErr = [w \in Workers |-> "nil"]
    /\ pass = [w \in Workers |-> 0]
    /\ trigger = [w \in Workers |-> "none"]
    /\ resp = [w \in Workers |-> "none"]
    /\ toWrite = [w \in Workers |->
                    [file |-> "none", rest |-> <<>>, ret |-> "none",
                      missing |-> FALSE]]
    /\ quitInternal = [w \in Workers |-> 0]
    /\ stopPc = [w \in Workers |->
                   IF w \in started THEN "NotCalled" ELSE "Absent"]
    /\ mutex = "free"
    /\ dumpBase = <<>>
    /\ dumpErrors = <<>>
    /\ dumpMode = [f \in DumpFiles |-> [exists |-> FALSE, mode |-> {}]]
    /\ umask \in masks
    /\ posted = {}

\* a collector's offer `r <- p` is accepted by the result queue; at most
\* `limit` records are offered in one run
Offer(limit) ==
    /\ ~Crashed
    \* the collectors are stopped before the sender pools
    /\ \A w \in Workers : stopPc[w] \in {"NotCalled", "Absent"}
    /\ produced < limit
    /\ produced' = produced + 1
    /\ jobs' = Append(jobs, produced + 1)
    /\ UNCHANGED <<wpc, queries, lineQueries, drained, sendErr, pass,
                   trigger, resp, toWrite, quitInternal, stopPc, mutex,
                   dumpBase, dumpErrors, posted>>
    /\ UNCHANGED <<probed, dumpMode, umask, collectVars, libVars>>

\* Worker.Stop, first statement: worker.quitInternal <- true
StopSignal(w) ==
    /\ ~Crashed
    /\ stopPc[w] = "NotCalled"
    /\ quitInternal[w] = 0
    /\ quitInternal' = [quitInternal EXCEPT ![w] = 1]
    /\ stopPc' = [stopPc EXCEPT ![w] = "SendQuit"]
    /\ UNCHANGED <<jobs, produced, wpc, queries, lineQueries, drained,
                   sendErr, pass, trigger, resp, toWrite, mutex, dumpBase,
                   dumpErrors, posted>>
    /\ UNCHANGED <<probed, dumpMode, umask, collectVars, libVars>>

\* Probe without the test of DatabaseExists()
ProbeSkipsSchema(w) ==
    /\ ~Crashed
    /\ wpc[w] = "Probe"
    /\ \E alive \in BOOLEAN, exists \in BOOLEAN :
         /\ probed' = [probed EXCEPT ![w] =
                         [alive |-> alive, exists |-> alive /\ exists]]
         /\ wpc' = [wpc EXCEPT ![w] =
                      IF alive THEN "Select" ELSE "WaitAlive"]
    /\ UNCHANGED <<jobs, produced, queries, lineQueries, drained, sendErr,
                   pass, trigger, resp, toWrite, quitInternal, stopPc,
                   mutex, dumpBase, dumpErrors, posted>>
    /\ UNCHANGED <<dumpMode, umask, collectVars, libVars>>

\* top of run's loop: IsAlive() and DatabaseExists() are answered by the
\* target
Probe(w) ==
    /\ ~Crashed
    /\ wpc[w] = "Probe"
    /\ \E alive \in BOOLEAN, exists \in BOOLEAN :
         /\ probed' = [probed EXCEPT ![w] =
                         [alive |-> alive, exists |-> alive /\ exists]]
         /\ wpc' = [wpc EXCEPT ![w] =
                      IF alive
                      THEN (IF exists THEN "Select" ELSE "WaitSchema")
                      ELSE "WaitAlive"]
    /\ UNCHANGED <<jobs, produced, queries, lineQueries, drained, sendErr,
                   pass, trigger, resp, toWrite, quitInternal, stopPc,
                   mutex, dumpBase, dumpErrors, posted>>
    /\ UNCHANGED <<dumpMode, umask, collectVars, libVars>>

\* run's select, case <-worker.quit: rendezvous with Stop's quit <- true
SelectQuit(w) ==
    /\ ~Crashed
    /\ wpc[w] = "Select"
    /\ stopPc[w] = "SendQuit"
    /\ stopPc' = [stopPc EXCEPT ![w] = "RecvAck"]
    /\ trigger' = [trigger EXCEPT ![w] = "quit"]
    /\ wpc' = [wpc EXCEPT ![w] = "SendBuffer"]
    /\ UNCHANGED <<jobs, produced, queries, lineQueries, drained, sendErr,
                   pass, resp, toWrite, quitInternal, mutex, dumpBase,
                   dumpErrors, posted>>
    /\ UNCHANGED <<probed, dumpMode, umask, collectVars, libVars>>

\* run's select, case query = <-worker.jobs
SelectReceive(w) ==
    /\ ~Crashed
    /\ wpc[w] = "Select"
    /\ jobs # <<>>
    /\ jobs' = Tail(jobs)
    /\ queries' = [queries EXCEPT ![w] = Append(@, Head(jobs))]
    /\ IF Len(queries[w]) + 1 = BatchSize
       THEN /\ trigger' = [trigger EXCEPT ![w] = "full"]
            /\ wpc' = [wpc EXCEPT ![w] = "SendBuffer"]
            /\ UNCHANGED probed
       ELSE /\ wpc' = [wpc EXCEPT ![w] = "Probe"]
            /\ probed' = [probed EXCEPT ![w] = NotProbed]
            /\ UNCHANGED trigger
    /\ UNCHANGED <<produced, lineQueries, drained, sendErr, pass, resp,
                   toWrite, quitInternal, stopPc, mutex, dumpBase,
                   dumpErrors, posted>>
    /\ UNCHANGED <<dumpMode, umask, collectVars, libVars>>

\* run's select, case <-time.After(dataTimeout)
SelectTimeout(w) ==
    /\ ~Crashed
    /\ wpc[w] = "Select"
    /\ jobs = <<>>
    /\ stopPc[w] # "SendQuit"
    /\ trigger' = [trigger EXCEPT ![w] = "timeout"]
    /\ wpc' = [wpc EXCEPT ![w] = "SendBuffer"]
    /\ UNCHANGED <<jobs, produced, queries, lineQueries, drained, sendErr,
                   pass, resp, toWrite, quitInternal, stopPc, mutex,
                   dumpBase, dumpErrors, posted>>
    /\ UNCHANGED <<probed, dumpMode, umask, collectVars, libVars>>

\* waitForExternalQuit, case <-worker.quit
WaitExternalQuit(w) ==
    /\ ~Crashed
    /\ wpc[w] \in {"WaitAlive", "WaitSchema"}
    /\ stopPc[w] = "SendQuit"
    /\ stopPc' = [stopPc EXCEPT ![w] = "RecvAck"]
    /\ wpc' = [wpc EXCEPT ![w] = "Ack"]
    /\ UNCHANGED <<jobs, produced, queries, lineQueries, drained, sendErr,
                   pass, trigger, resp, toWrite, quitInternal, mutex,
                   dumpBase, dumpErrors, posted>>
    /\ UNCHANGED <<probed, dumpMode, umask, collectVars, libVars>>

\* waitForExternalQuit, case <-time.After(30 s)
WaitExternalTimeout(w) ==
    /\ ~Crashed
    /\ wpc[w] \in {"WaitAlive", "WaitSchema"}
    /\ stopPc[w] # "SendQuit"
    /\ wpc' = [wpc EXCEPT ![w] = "Probe"]
    /\ probed' = [probed EXCEPT ![w] = NotProbed]
    /\ UNCHANGED <<jobs, produced, queries, lineQueries, drained, sendErr,
                   pass, trigger, resp, toWrite, quitInternal, stopPc,
                   mutex, dumpBase, dumpErrors, posted>>
    /\ UNCHANGED <<dumpMode, umask, collectVars, libVars>>

\* worker.quit <- true after the quit case: rendezvous with Stop's <-quit
Ack(w) ==
    /\ ~Crashed
    /\ wpc[w] = "Ack"
    /\ stopPc[w] = "RecvAck"
    /\ wpc' = [wpc EXCEPT ![w] = "Done"]
    /\ stopPc' = [stopPc EXCEPT ![w] = "Returned"]
    /\ UNCHANGED <<jobs, produced, queries, lineQueries, drained, sendErr,
                   pass, trigger, resp, toWrite, quitInternal, mutex,
                   dumpBase, dumpErrors, posted>>
    /\ UNCHANGED <<probed, dumpMode, umask, collectVars, libVars>>

\* Worker.sendBuffer, entry: empty buffers return at once, otherwise every
\* query is cast and the first POST is prepared
SendBuffer(w) ==
    /\ ~Crashed
    /\ wpc[w] = "SendBuffer"
    /\ IF Len(queries[w]) = 0
       THEN /\ wpc' = [wpc EXCEPT ![w] = "Return"]
            /\ UNCHANGED lineQueries
       ELSE /\ lineQueries' = [lineQueries EXCEPT ![w] = castAll(queries[w])]
            /\ wpc' = [wpc EXCEPT ![w] = "PostFirst"]
    /\ UNCHANGED <<jobs, produced, queries, drained, sendErr, pass, trigger,
                   resp, toWrite, quitInternal, stopPc, mutex, dumpBase,
                   dumpErrors, posted>>
    /\ UNCHANGED <<probed, dumpMode, umask, collectVars, libVars>>

\* the lines of a sequence as a set
Range(s) == {s[k] : k \in 1..Len(s)}

\* sendErr := worker.sendData(dataToSend, true), before the loop
PostFirst(w) ==
    /\ ~Crashed
    /\ wpc[w] = "PostFirst"
    /\ \E outcome \in Responses :
         LET e == sendData(outcome, TRUE) IN
         /\ resp' = [resp EXCEPT ![w] = outcome]
         /\ posted' = IF outcome = "ok"
                      THEN posted \cup Range(lineQueries[w]) ELSE posted
         /\ sendErr' = [sendErr EXCEPT ![w] = IF e = "panic" THEN @ ELSE e]
         /\ wpc' = [wpc EXCEPT ![w] =
                      CASE e = "panic" -> "Panicked"
                        [] e = "nil"   -> "Return"
                        [] OTHER       -> "Loop"]
    /\ pass' = [pass EXCEPT ![w] = 0]
    /\ UNCHANGED <<jobs, produced, queries, lineQueries, drained, trigger,
                   toWrite, quitInternal, stopPc, mutex, dumpBase,
                   dumpErrors>>
    /\ UNCHANGED <<probed, dumpMode, umask, collectVars, libVars>>

\* the lines of `lines` whose individual POST sendData reports as failed
RECURSIVE badQueries(_, _)
badQueries(lines, outs) ==
    IF lines = <<>> THEN <<>>
    ELSE (IF sendData(Head(outs), FALSE) # "nil" THEN <<Head(lines)>>
          ELSE <<>>) \o badQueries(Tail(lines), Tail(outs))

\* the lines of `lines` whose individual POST the downstream accepted
acceptedQueries(lines, outs) ==
    {lines[k] : k \in {j \in 1..Len(lines) : outs[j] = "ok"}}

\* first line dumpErrorQueries puts before the queries
Marker(text) == <<"marker", text>>

\* one pass of sendBuffer's loop `for i := 0; i < 3; i++ { switch sendErr }`,
\* and the statement after the loop
Loop(w) ==
    /\ ~Crashed
    /\ wpc[w] = "Loop"
    /\ IF pass[w] < MaxPasses
       THEN CASE sendErr[w] = "errorBadRequest" ->
                   \* resend line by line, dump the bad ones
                   \E outs \in [1..Len(lineQueries[w]) -> Responses] :
                     /\ posted' = posted \cup
                                    acceptedQueries(lineQueries[w], outs)
                     /\ toWrite' = [toWrite EXCEPT ![w] =
                          [file |-> "errors",
                           rest |-> <<Marker("not clean")>> \o
                                    badQueries(lineQueries[w], outs),
                           ret  |-> "Loop", missing |-> FALSE]]
                     /\ wpc' = [wpc EXCEPT ![w] = "DumpStat"]
                     /\ UNCHANGED pass
              [] sendErr[w] = "nil" ->
                   \* break leaves the switch only
                   /\ pass' = [pass EXCEPT ![w] = @ + 1]
                   /\ UNCHANGED <<wpc, toWrite, posted>>
              [] OTHER ->
                   /\ wpc' = [wpc EXCEPT ![w] = "WaitRetry"]
                   /\ UNCHANGED <<pass, toWrite, posted>>
       ELSE IF sendErr[w] # "nil"
            THEN /\ toWrite' = [toWrite EXCEPT ![w] =
                      [file |-> "errors",
                       rest |-> <<Marker(sendErr[w])>> \o lineQueries[w],
                       ret  |-> "Return", missing |-> FALSE]]
                 /\ wpc' = [wpc EXCEPT ![w] = "DumpStat"]
                 /\ UNCHANGED <<pass, posted>>
            ELSE /\ wpc' = [wpc EXCEPT ![w] = "Return"]
                 /\ UNCHANGED <<pass, toWrite, posted>>
    /\ UNCHANGED <<jobs, produced, queries, lineQueries, drained, sendErr,
                   trigger, resp, quitInternal, stopPc, mutex, dumpBase,
                   dumpErrors>>
    /\ UNCHANGED <<probed, dumpMode, umask, collectVars, libVars>>

\* waitForQuitOrGoOn, case <-worker.quitInternal: the value is put back and
\* errorInterrupted returned, so sendBuffer calls dumpRemainingQueries
WaitRetryQuit(w) ==
    /\ ~Crashed
    /\ wpc[w] = "WaitRetry"
    /\ quitInternal[w] = 1
    /\ wpc' = [wpc EXCEPT ![w] = "LockRemaining"]
    /\ UNCHANGED <<jobs, produced, queries, lineQueries, drained, sendErr,
                   pass, trigger, resp, toWrite, quitInternal, stopPc,
                   mutex, dumpBase, dumpErrors, posted>>
    /\ UNCHANGED <<probed, dumpMode, umask, collectVars, libVars>>

\* waitForQuitOrGoOn, case <-time.After(10 s): returns nil, sendBuffer
\* goes on to resend
WaitRetryTimeout(w) ==
    /\ ~Crashed
    /\ wpc[w] = "WaitRetry"
    /\ quitInternal[w] = 0
    /\ wpc' = [wpc EXCEPT ![w] = "PostRetry"]
    /\ UNCHANGED <<jobs, produced, queries, lineQueries, drained, sendErr,
                   pass, trigger, resp, toWrite, quitInternal, stopPc,
                   mutex, dumpBase, dumpErrors, posted>>
    /\ UNCHANGED <<probed, dumpMode, umask, collectVars, libVars>>

\* dumpRemainingQueries: mutex.Lock() and the test on the two lengths
LockRemaining(w) ==
    /\ ~Crashed
    /\ wpc[w] = "LockRemaining"
    /\ mutex = "free"
    /\ IF Len(jobs) # 0 \/ Len(lineQueries[w]) # 0
       THEN /\ mutex' = w
            /\ drained' = [drained EXCEPT ![w] = <<>>]
            /\ wpc' = [wpc EXCEPT ![w] = "Drain"]
            /\ UNCHANGED sendErr
       ELSE \* Lock and Unlock with nothing in between, then sendErr = nil
            /\ sendErr' = [sendErr EXCEPT ![w] = "nil"]
            /\ wpc' = [wpc EXCEPT ![w] = "PostRetry"]
            /\ UNCHANGED <<mutex, drained>>
    /\ UNCHANGED <<jobs, produced, queries, lineQueries, pass, trigger,
                   resp, toWrite, quitInternal, stopPc, dumpBase,
                   dumpErrors, posted>>
    /\ UNCHANGED <<probed, dumpMode, umask, collectVars, libVars>>

\* readQueriesFromQueue: one iteration of its select; after 200 ms without
\* a record the loop ends and dumpQueries(worker.dumpFile, ...) is called
Drain(w) ==
    /\ ~Crashed
    /\ wpc[w] = "Drain"
    /\ IF jobs # <<>>
       THEN /\ jobs' = Tail(jobs)
            /\ drained' = [drained EXCEPT ![w] =
                             Append(@, castJobToString(Head(jobs)))]
            /\ UNCHANGED <<wpc, toWrite>>
       ELSE /\ toWrite' = [toWrite EXCEPT ![w] =
                             [file |-> "base",
                              rest |-> lineQueries[w] \o drained[w],
                              ret  |-> "Retry", missing |-> FALSE]]
            /\ wpc' = [wpc EXCEPT ![w] = "DumpStat"]
            /\ UNCHANGED <<jobs, drained>>
    /\ UNCHANGED <<produced, queries, lineQueries, sendErr, pass, trigger,
                   resp, quitInternal, stopPc, mutex, dumpBase, dumpErrors,
                   posted>>
    /\ UNCHANGED <<probed, dumpMode, umask, collectVars, libVars>>

\* dumpQueries: os.Stat(filename), os.IsNotExist(err)
DumpStat(w) ==
    /\ ~Crashed
    /\ wpc[w] = "DumpStat"
    /\ toWrite' = [toWrite EXCEPT ![w].missing =
                     ~dumpMode[toWrite[w].file].exists]
    /\ wpc' = [wpc EXCEPT ![w] = "DumpOpen"]
    /\ UNCHANGED <<jobs, produced, queries, lineQueries, drained, sendErr,
                   pass, trigger, resp, quitInternal, stopPc, mutex,
                   dumpBase, dumpErrors, posted>>
    /\ UNCHANGED <<probed, dumpMode, umask, collectVars, libVars>>

\* dumpQueries: when Stat found no file, os.Create(filename), that is
\* OpenFile(O_RDWR|O_CREATE|O_TRUNC, 0666): a new file gets 0666 less the
\* umask, a file that has appeared since the Stat is truncated; then
\* os.OpenFile(filename, O_APPEND|O_WRONLY, 0600), whose permission
\* argument is unused without O_CREATE
DumpOpen(w) ==
    LET file == toWrite[w].file IN
    /\ ~Crashed
    /\ wpc[w] = "DumpOpen"
    /\ IF toWrite[w].missing
       THEN /\ dumpMode' = [dumpMode EXCEPT ![file] =
                              IF @.exists THEN @
                              ELSE [exists |-> TRUE,
                                    mode |-> CreatePerm \ umask]]
            /\ dumpBase' = IF file = "base" THEN <<>> ELSE dumpBase
            /\ dumpErrors' = IF file = "errors" THEN <<>> ELSE dumpErrors
       ELSE UNCHANGED <<dumpMode, dumpBase, dumpErrors>>
    /\ wpc' = [wpc EXCEPT ![w] = "DumpWrite"]
    /\ UNCHANGED <<jobs, produced, queries, lineQueries, drained, sendErr,
                   pass, trigger, resp, toWrite, quitInternal, stopPc,
                   mutex, posted>>
    /\ UNCHANGED <<probed, umask, collectVars, libVars>>

\* dumpQueries: one f.WriteString(query) of its loop
DumpWrite(w) ==
    /\ ~Crashed
    /\ wpc[w] = "DumpWrite"
    /\ toWrite[w].rest # <<>>
    /\ IF toWrite[w].file = "base"
       THEN /\ dumpBase' = Append(dumpBase, Head(toWrite[w].rest))
            /\ UNCHANGED dumpErrors
       ELSE /\ dumpErrors' = Append(dumpErrors, Head(toWrite[w].rest))
            /\ UNCHANGED dumpBase
    /\ toWrite' = [toWrite EXCEPT ![w].rest = Tail(@)]
    /\ UNCHANGED <<jobs, produced, wpc, queries, lineQueries, drained,
                   sendErr, pass, trigger, resp, quitInternal, stopPc,
                   mutex, posted>>
    /\ UNCHANGED <<probed, dumpMode, umask, collectVars, libVars>>

\* dumpQueries returns (deferred f.Close()) to its caller:
\* dumpRemainingQueries unlocks and sendBuffer sets sendErr = nil before the
\* resend; dumpErrorQueries returns into the loop or to the end of
\* sendBuffer
DumpClose(w) ==
    /\ ~Crashed
    /\ wpc[w] = "DumpWrite"
    /\ toWrite[w].rest = <<>>
    /\ CASE toWrite[w].ret = "Retry" ->
              /\ mutex' = "free"
              /\ sendErr' = [sendErr EXCEPT ![w] = "nil"]
              /\ wpc' = [wpc EXCEPT ![w] = "PostRetry"]
              /\ UNCHANGED pass
         [] toWrite[w].ret = "Loop" ->
              /\ sendErr' = [sendErr EXCEPT ![w] = "nil"]
              /\ pass' = [pass EXCEPT ![w] = @ + 1]
              /\ wpc' = [wpc EXCEPT ![w] = "Loop"]
              /\ UNCHANGED mutex
         [] OTHER ->
              /\ wpc' = [wpc EXCEPT ![w] = "Return"]
              /\ UNCHANGED <<mutex, sendErr, pass>>
    /\ toWrite' = [toWrite EXCEPT ![w] =
                     [file |-> "none", rest |-> <<>>, ret |-> "none",
                      missing |-> FALSE]]
    /\ UNCHANGED <<jobs, produced, queries, lineQueries, drained, trigger,
                   resp, quitInternal, stopPc, dumpBase, dumpErrors, posted>>
    /\ UNCHANGED <<probed, dumpMode, umask, collectVars, libVars>>

\* sendErr = worker.sendData(dataToSend, true) at the end of the default
\* case, then i++
PostRetry(w) ==
    /\ ~Crashed
    /\ wpc[w] = "PostRetry"
    /\ \E outcome \in Responses :
         LET e == sendData(outcome, TRUE) IN
         /\ resp' = [resp EXCEPT ![w] = outcome]
         /\ posted' = IF outcome = "ok"
                      THEN posted \cup Range(lineQueries[w]) ELSE posted
         /\ sendErr' = [sendErr EXCEPT ![w] = IF e = "panic" THEN @ ELSE e]
         /\ wpc' = [wpc EXCEPT ![w] =
                      IF e = "panic" THEN "Panicked" ELSE "Loop"]
         /\ pass' = [pass EXCEPT ![w] = IF e = "panic" THEN @ ELSE @ + 1]
    /\ UNCHANGED <<jobs, produced, queries, lineQueries, drained, trigger,
                   toWrite, quitInternal, stopPc, mutex, dumpBase,
                   dumpErrors>>
    /\ UNCHANGED <<probed, dumpMode, umask, collectVars, libVars>>

\* Return without the queries = queries[:0] of run
ReturnKeepsBuffer(w) ==
    /\ ~Crashed
    /\ wpc[w] = "Return"
    /\ IF trigger[w] = "quit"
       THEN /\ wpc' = [wpc EXCEPT ![w] = "Ack"]
            /\ UNCHANGED probed
       ELSE /\ wpc' = [wpc EXCEPT ![w] = "Probe"]
            /\ probed' = [probed EXCEPT ![w] = NotProbed]
    /\ trigger' = [trigger EXCEPT ![w] = "none"]
    /\ lineQueries' = [lineQueries EXCEPT ![w] = <<>>]
    /\ drained' = [drained EXCEPT ![w] = <<>>]
    /\ sendErr' = [sendErr EXCEPT ![w] = "nil"]
    /\ pass' = [pass EXCEPT ![w] = 0]
    /\ resp' = [resp EXCEPT ![w] = "none"]
    /\ UNCHANGED <<jobs, produced, queries, toWrite, quitInternal, stopPc,
                   mutex, dumpBase, dumpErrors, posted>>
    /\ UNCHANGED <<dumpMode, umask, collectVars, libVars>>

\* sendBuffer returns into run: after the quit case run acknowledges, after
\* the other two cases it empties the buffer (queries = queries[:0])
Return(w) ==
    /\ ~Crashed
    /\ wpc[w] = "Return"
    /\ IF trigger[w] = "quit"
       THEN /\ wpc' = [wpc EXCEPT ![w] = "Ack"]
            /\ UNCHANGED <<queries, probed>>
       ELSE /\ queries' = [queries EXCEPT ![w] = <<>>]
            /\ wpc' = [wpc EXCEPT ![w] = "Probe"]
            /\ probed' = [probed EXCEPT ![w] = NotProbed]
    /\ trigger' = [trigger EXCEPT ![w] = "none"]
    \* sendBuffer's locals end with the call
    /\ lineQueries' = [lineQueries EXCEPT ![w] = <<>>]
    /\ drained' = [drained EXCEPT ![w] = <<>>]
    /\ sendErr' = [sendErr EXCEPT ![w] = "nil"]
    /\ pass' = [pass EXCEPT ![w] = 0]
    /\ resp' = [resp EXCEPT ![w] = "none"]
    /\ UNCHANGED <<jobs, produced, toWrite, quitInternal, stopPc, mutex,
                   dumpBase, dumpErrors, posted>>
    /\ UNCHANGED <<dumpMode, umask, collectVars, libVars>>

\* the steps of the goroutine of worker w; the caller of Stop takes part in
\* the two rendezvous on worker.quit
RunStep(w) ==
    \/ Probe(w)
    \/ SelectQuit(w)
    \/ SelectReceive(w)
    \/ SelectTimeout(w)
    \/ WaitExternalQuit(w)
    \/ WaitExternalTimeout(w)
    \/ Ack(w)
    \/ SendBuffer(w)
    \/ PostFirst(w)
    \/ Loop(w)
    \/ WaitRetryQuit(w)
    \/ WaitRetryTimeout(w)
    \/ LockRemaining(w)
    \/ Drain(w)
    \/ DumpStat(w)
    \/ DumpOpen(w)
    \/ DumpWrite(w)
    \/ DumpClose(w)
    \/ PostRetry(w)
    \/ Return(w)

\* the steps of worker w and of the caller of its Stop
WorkerStep(w) == StopSignal(w) \/ RunStep(w)

(***************************************************************************)
(* External-file (CSV) collector                                           *)
(***************************************************************************)

\* column names are sequences of characters, so that the prefix tests of
\* parseFile are computed; data cells are plain strings
sTable  == <<"t", "a", "b", "l", "e">>
sTime   == <<"t", "i", "m", "e">>
sTarget == <<"t", "a", "r", "g", "e", "t">>
sTagH   == <<"t", "_", "h">>
sFieldV == <<"f", "_", "v">>
sOther  == <<"x">>

requiredFields == <<sTable, sTime>>
optionalFields == <<sTarget>>

\* collector.EmptyFilterable and collector.AllFilterable
EmptyFilterable == ""
AllFilterable == "all"

\* the targets, in the order run ranges over nfc.results
Targets == <<"influx", "elastic">>

\* helper.Contains(hay, needles): every needle occurs in hay
Contains(hay, needles) ==
    \A k \in 1..Len(needles) : \E j \in 1..Len(hay) : hay[j] = needles[k]

\* parseFile's tagIndices / fieldIndices: column index -> name without the
\* two-character prefix
prefixIndices(header, prefix) ==
    [c \in {j \in 1..Len(header) :
              Len(header[j]) > 1 /\ SubSeq(header[j], 1, 2) = prefix}
       |-> SubSeq(header[c], 3, Len(header[c]))]

tagIndices(header) == prefixIndices(header, <<"t", "_">>)

fieldIndices(header) == prefixIndices(header, <<"f", "_">>)

\* the non-empty cell of row r in the last column named `name`, or ""
cellOf(header, r, name) ==
    LET cols == {j \in 1..Len(r) : r[j] # "" /\ header[j] = name} IN
    IF cols = {} THEN ""
    ELSE r[CHOOSE j \in cols : \A k \in cols : k <= j]

\* the map built from the non-empty cells of the columns in `indices`
\* (columns named table, time or target are taken by the earlier branches)
cellMap(header, r, indices) ==
    LET cols == {j \in DOMAIN indices :
                   /\ j <= Len(r)
                   /\ r[j] # ""
                   /\ header[j] \notin {sTable, sTime, sTarget}}
        last(n) == CHOOSE j \in cols :
                     /\ indices[j] = n
                     /\ \A k \in cols : indices[k] = n => k <= j
    IN [n \in {indices[j] : j \in cols} |-> r[last(n)]]

\* the Printable parseFile builds from one data row
rowToPrintable(header, r) ==
    LET filter == cellOf(header, r, sTarget) IN
    [Table     |-> cellOf(header, r, sTable),
     Timestamp |-> cellOf(header, r, sTime),
     Filter    |-> IF filter = EmptyFilterable THEN AllFilterable
                   ELSE filter,
     tags      |-> cellMap(header, r, tagIndices(header)),
     fields    |-> cellMap(header, r, fieldIndices(header))]

\* parseFile(filename) on the file body: `panics` is the index out of
\* range of records[0] on a file without rows, `result` the return value
parseFile(body) ==
    [panics |-> body.openOK /\ body.csvOK /\ body.records = <<>>,
     result |->
        IF ~body.openOK THEN <<>>
        ELSE IF ~body.csvOK THEN <<>>
        ELSE IF body.records = <<>> THEN <<>>
        ELSE IF ~Contains(body.records[1], requiredFields) THEN <<>>
        ELSE [k \in 1..(Len(body.records) - 1) |->
                rowToPrintable(body.records[1], body.records[k + 1])]]

\* file bodies a user may drop into the folder
Unreadable == [openOK |-> FALSE, csvOK |-> FALSE, records |-> <<>>]
BadCSV     == [openOK |-> TRUE, csvOK |-> FALSE, records |-> <<>>]
NoRows     == [openOK |-> TRUE, csvOK |-> TRUE, records |-> <<>>]
NoTime     == [openOK |-> TRUE, csvOK |-> TRUE,
               records |-> << <<sTable, sTagH>>, <<"cpu", "a">> >>]
TwoRows    == [openOK |-> TRUE, csvOK |-> TRUE,
               records |-> << <<sTable, sTime, sTarget, sTagH, sFieldV>>,
                              <<"cpu", "17", "all", "a", "1">>,
                              <<"mem", "18", "influx", "b", "2">> >>]
OneRow     == [openOK |-> TRUE, csvOK |-> TRUE,
               records |-> << <<sTable, sTime, sTarget>>,
                              <<"cpu", "17", "elastic">> >>]
Sparse     == [openOK |-> TRUE, csvOK |-> TRUE,
               records |-> << <<sTime, sOther, sTable, sFieldV>>,
                              <<"19", "z", "", "3">>,
                              <<"x", "", "net", "">> >>]

FileSamples == {Unreadable, BadCSV, NoRows, NoTime, OneRow, TwoRows, Sparse}

\* the file names of the folder
Files == {1, 2}

\* names of a directory listing, sorted as ioutil.ReadDir sorts them
RECURSIVE sortedNames(_)
sortedNames(set) ==
    IF set = {} THEN <<>>
    ELSE LET least == CHOOSE f \in set : \A g \in set : f <= g
         IN <<least>> \o sortedNames(set \ {least})

\* spoolfile.FilesInDirectoryOlderThanX(nfc.folder, MinFileAge)
FilesInDirectoryOlderThanX ==
    sortedNames({f \in Files : dir[f].present /\ dir[f].old})

\* state after NewNagfluxFileCollector (run is spawned) over a folder that
\* holds the files `names` with bodies from `bodies`; with no file name the
\* collector is not configured
InitFile(names, bodies) ==
    /\ dir \in [Files -> [present : BOOLEAN, old : BOOLEAN, body : bodies]]
    /\ \A f \in Files :
         IF f \in names THEN dir[f].present
         ELSE dir[f] = [present |-> FALSE, old |-> FALSE,
                        body |-> CHOOSE b \in bodies : TRUE]
    /\ results = [t \in {Targets[k] : k \in 1..Len(Targets)} |-> <<>>]
    /\ fquit = <<>>
    /\ fpc = IF names # {} THEN "Select" ELSE "Absent"
    /\ fstopPc = IF names # {} THEN "NotCalled" ELSE "Absent"
    /\ fpause = FALSE
    /\ fileList = <<>>
    /\ parsed = <<>>
    /\ pIdx = 1
    /\ tIdx = 1

TargetSet == {Targets[k] : k \in 1..Len(Targets)}

\* FileCollector.Stop, first statement: nfc.quit <- true (buffered)
FileStopSend ==
    /\ ~Crashed
    /\ fstopPc = "NotCalled"
    /\ Len(fquit) < 1
    /\ fquit' = Append(fquit, TRUE)
    /\ fstopPc' = "RecvAck"
    /\ UNCHANGED <<dir, results, fpc, fpause, fileList, parsed, pIdx, tIdx>>
    /\ UNCHANGED <<pause, spoolVars, sendVars, libVars>>

\* FileCollector.Stop, second statement: <-nfc.quit takes whatever value
\* the channel holds
FileStopRecv ==
    /\ ~Crashed
    /\ fstopPc = "RecvAck"
    /\ fquit # <<>>
    /\ fquit' = Tail(fquit)
    /\ fstopPc' = "Returned"
    /\ UNCHANGED <<dir, results, fpc, fpause, fileList, parsed, pIdx, tIdx>>
    /\ UNCHANGED <<pause, spoolVars, sendVars, libVars>>

\* run's outer select, case <-nfc.quit
FileSelectQuit ==
    /\ ~Crashed
    /\ fpc = "Select"
    /\ fquit # <<>>
    /\ fquit' = Tail(fquit)
    /\ fpc' = "Ack"
    /\ UNCHANGED <<dir, results, fstopPc, fpause, fileList, parsed, pIdx,
                   tIdx>>
    /\ UNCHANGED <<pause, spoolVars, sendVars, libVars>>

\* FileTick without the `if pause { continue }`
FileTickNoPause ==
    /\ ~Crashed
    /\ fpc = "Select"
    /\ fquit = <<>>
    /\ fpause' = pause
    /\ fileList' = FilesInDirectoryOlderThanX
    /\ fpc' = "NextFile"
    /\ UNCHANGED <<dir, results, fquit, fstopPc, parsed, pIdx, tIdx>>
    /\ UNCHANGED <<pause, spoolVars, sendVars, libVars>>

\* run's outer select, case <-time.After(IntervalToCheckDirectory): read
\* the pause flag, `continue` when it is set, else list the old files
FileTick ==
    /\ ~Crashed
    /\ fpc = "Select"
    /\ fquit = <<>>
    /\ fpause' = pause
    /\ IF pause
       THEN UNCHANGED <<fpc, fileList>>
       ELSE /\ fileList' = FilesInDirectoryOlderThanX
            /\ fpc' = "NextFile"
    /\ UNCHANGED <<dir, results, fquit, fstopPc, parsed, pIdx, tIdx>>
    /\ UNCHANGED <<pause, spoolVars, sendVars, libVars>>

\* head of `for _, currentFile := range ...`: nfc.parseFile(currentFile);
\* after the last file back to the select
FileNext ==
    /\ ~Crashed
    /\ fpc = "NextFile"
    /\ IF fileList = <<>>
       THEN /\ fpc' = "Select"
            /\ UNCHANGED <<parsed, pIdx, tIdx>>
       ELSE LET call == parseFile(dir[Head(fileList)].body) IN
            IF call.panics
            THEN /\ fpc' = "Panicked"
                 /\ UNCHANGED <<parsed, pIdx, tIdx>>
            ELSE /\ parsed' = call.result
                 /\ pIdx' = 1
                 /\ tIdx' = 1
                 /\ fpc' = "Offer"
    /\ UNCHANGED <<dir, results, fquit, fstopPc, fpause, fileList>>
    /\ UNCHANGED <<pause, spoolVars, sendVars, libVars>>

\* the loop indices after one pass of `for _, r := range nfc.results`
advance ==
    IF tIdx < Len(Targets)
    THEN /\ tIdx' = tIdx + 1
         /\ UNCHANGED pIdx
    ELSE /\ tIdx' = 1
         /\ pIdx' = pIdx + 1

\* inner select, case <-nfc.quit
FileOfferQuit ==
    /\ ~Crashed
    /\ fpc = "Offer"
    /\ pIdx <= Len(parsed)
    /\ fquit # <<>>
    /\ fquit' = Tail(fquit)
    /\ fpc' = "Ack"
    /\ UNCHANGED <<dir, results, fstopPc, fpause, fileList, parsed, pIdx,
                   tIdx>>
    /\ UNCHANGED <<pause, spoolVars, sendVars, libVars>>

\* inner select, case r <- p
FileOfferSend ==
    /\ ~Crashed
    /\ fpc = "Offer"
    /\ pIdx <= Len(parsed)
    /\ Len(results[Targets[tIdx]]) < QueueCap
    /\ results' = [results EXCEPT ![Targets[tIdx]] = Append(@, parsed[pIdx])]
    /\ advance
    /\ UNCHANGED <<dir, fquit, fpc, fstopPc, fpause, fileList, parsed>>
    /\ UNCHANGED <<pause, spoolVars, sendVars, libVars>>

\* FileOfferTimeout leaving the loop over the targets after the warning
FileOfferTimeoutBreak ==
    /\ ~Crashed
    /\ fpc = "Offer"
    /\ pIdx <= Len(parsed)
    /\ Len(results[Targets[tIdx]]) >= QueueCap
    /\ fquit = <<>>
    /\ tIdx' = 1
    /\ pIdx' = pIdx + 1
    /\ UNCHANGED <<dir, results, fquit, fpc, fstopPc, fpause, fileList,
                   parsed>>
    /\ UNCHANGED <<pause, spoolVars, sendVars, libVars>>

\* inner select, case <-time.After(1 minute): the copy is dropped
FileOfferTimeout ==
    /\ ~Crashed
    /\ fpc = "Offer"
    /\ pIdx <= Len(parsed)
    /\ Len(results[Targets[tIdx]]) >= QueueCap
    /\ fquit = <<>>
    /\ advance
    /\ UNCHANGED <<dir, results, fquit, fpc, fstopPc, fpause, fileList,
                   parsed>>
    /\ UNCHANGED <<pause, spoolVars, sendVars, libVars>>

\* FileRemove placed before the loop over the records
FileRemoveBeforeOffers ==
    /\ ~Crashed
    /\ fpc = "Offer"
    /\ dir' = [dir EXCEPT ![Head(fileList)].present = FALSE]
    /\ fileList' = Tail(fileList)
    /\ parsed' = <<>>
    /\ pIdx' = 1
    /\ tIdx' = 1
    /\ fpc' = "NextFile"
    /\ UNCHANGED <<results, fquit, fstopPc, fpause>>
    /\ UNCHANGED <<pause, spoolVars, sendVars, libVars>>

\* os.Remove(currentFile) after the records of the file were offered
FileRemove ==
    /\ ~Crashed
    /\ fpc = "Offer"
    /\ pIdx > Len(parsed)
    /\ dir' = [dir EXCEPT ![Head(fileList)].present = FALSE]
    /\ fileList' = Tail(fileList)
    /\ parsed' = <<>>
    /\ pIdx' = 1
    /\ tIdx' = 1
    /\ fpc' = "NextFile"
    /\ UNCHANGED <<results, fquit, fstopPc, fpause>>
    /\ UNCHANGED <<pause, spoolVars, sendVars, libVars>>

\* nfc.quit <- true after a quit case, then return
FileAck ==
    /\ ~Crashed
    /\ fpc = "Ack"
    /\ Len(fquit) < 1
    /\ fquit' = Append(fquit, TRUE)
    /\ fpc' = "Done"
    /\ UNCHANGED <<dir, results, fstopPc, fpause, fileList, parsed, pIdx,
                   tIdx>>
    /\ UNCHANGED <<pause, spoolVars, sendVars, libVars>>

\* a sender-worker of target t receives from its result queue
Consume(t) ==
    /\ ~Crashed
    /\ results[t] # <<>>
    /\ results' = [results EXCEPT ![t] = Tail(@)]
    /\ UNCHANGED <<dir, fquit, fpc, fstopPc, fpause, fileList, parsed, pIdx,
                   tIdx>>
    /\ UNCHANGED <<pause, spoolVars, sendVars, libVars>>

\* time passes: the modification time of f is now MinFileAge in the past
FileAges(f) ==
    /\ ~Crashed
    /\ dir[f].present
    /\ ~dir[f].old
    /\ dir' = [dir EXCEPT ![f].old = TRUE]
    /\ UNCHANGED <<results, fquit, fpc, fstopPc, fpause, fileList, parsed,
                   pIdx, tIdx>>
    /\ UNCHANGED <<pause, spoolVars, sendVars, libVars>>

\* a target sets or clears its pause flag; the aggregate flag changes
TogglePause ==
    /\ ~Crashed
    /\ pause' = ~pause
    /\ UNCHANGED <<fileVars, spoolVars, sendVars, libVars>>

\* the steps of run while nobody calls Stop, and of its environment
FileScanStep ==
    \/ FileTick
    \/ FileNext
    \/ FileOfferSend
    \/ FileOfferTimeout
    \/ FileRemove
    \/ \E t \in TargetSet : Consume(t)
    \/ \E f \in Files : FileAges(f)

FileStep ==
    \/ FileScanStep
    \/ FileStopSend
    \/ FileStopRecv
    \/ FileSelectQuit
    \/ FileOfferQuit
    \/ FileAck

(***************************************************************************)
(* Spool-file scanner and parser-workers                                   *)
(***************************************************************************)

\* the file names Nagios may write into the spool directory
SpoolFiles == {1, 2}

\* the parser-workers sharing s.jobs
Parsers == {"p1", "p2"}

\* state after NagiosSpoolfileCollectorFactory with the parser-workers
\* `parsers` over a spool directory in which Nagios writes the files
\* `names`; with no file name the scanner is not configured
InitSpool(names, parsers) ==
    /\ spool \in SUBSET names
    /\ syoung \in SUBSET spool
    /\ sjobs = <<>>
    /\ spc = IF names # {} THEN "Select" ELSE "Absent"
    /\ sstopPc = IF names # {} THEN "NotCalled" ELSE "Absent"
    /\ spause = FALSE
    /\ sfiles = <<>>
    /\ held = [k \in Parsers |-> IF k \in parsers THEN 0 ELSE -1]

\* Stop is called: the caller blocks in s.quit <- true (unbuffered)
SpoolStopCall ==
    /\ ~Crashed
    /\ sstopPc = "NotCalled"
    /\ sstopPc' = "SendQuit"
    /\ UNCHANGED <<syoung, spool, sjobs, spc, spause, sfiles, held>>
    /\ UNCHANGED <<pause, fileVars, sendVars, libVars>>

\* run's outer select, case <-s.quit: rendezvous with Stop's send
SpoolSelectQuit ==
    /\ ~Crashed
    /\ spc = "Select"
    /\ sstopPc = "SendQuit"
    /\ sstopPc' = "RecvAck"
    /\ spc' = "Ack"
    /\ UNCHANGED <<syoung, spool, sjobs, spause, sfiles, held>>
    /\ UNCHANGED <<pause, fileVars, sendVars, libVars>>

\* run's outer select, case <-time.After(IntervalToCheckDirectory): read
\* the pause flag, `continue` when it is set, else ioutil.ReadDir
SpoolTick ==
    /\ ~Crashed
    /\ spc = "Select"
    /\ sstopPc # "SendQuit"
    /\ spause' = pause
    /\ IF pause
       THEN UNCHANGED <<spc, sfiles>>
       ELSE /\ sfiles' = sortedNames(spool)
            /\ spc' = "Push"
    /\ UNCHANGED <<syoung, spool, sjobs, sstopPc, held>>
    /\ UNCHANGED <<pause, fileVars, sendVars, libVars>>

\* the range loop over files has ended: back to the outer select
SpoolScanDone ==
    /\ ~Crashed
    /\ spc = "Push"
    /\ sfiles = <<>>
    /\ spc' = "Select"
    /\ UNCHANGED <<syoung, spool, sjobs, sstopPc, spause, sfiles, held>>
    /\ UNCHANGED <<pause, fileVars, sendVars, libVars>>

\* inner select, case <-s.quit
SpoolPushQuit ==
    /\ ~Crashed
    /\ spc = "Push"
    /\ sfiles # <<>>
    /\ sstopPc = "SendQuit"
    /\ sstopPc' = "RecvAck"
    /\ spc' = "Ack"
    /\ UNCHANGED <<syoung, spool, sjobs, spause, sfiles, held>>
    /\ UNCHANGED <<pause, fileVars, sendVars, libVars>>

\* inner select, case s.jobs <- path.Join(s.spoolDirectory, name)
SpoolPushSend ==
    /\ ~Crashed
    /\ spc = "Push"
    /\ sfiles # <<>>
    /\ Len(sjobs) < JobsCap
    /\ sjobs' = Append(sjobs, Head(sfiles))
    /\ sfiles' = Tail(sfiles)
    /\ UNCHANGED <<syoung, spool, spc, sstopPc, spause, held>>
    /\ UNCHANGED <<pause, fileVars, sendVars, libVars>>

\* inner select, case <-time.After(1 minute): the path is skipped
SpoolPushTimeout ==
    /\ ~Crashed
    /\ spc = "Push"
    /\ sfiles # <<>>
    /\ Len(sjobs) >= JobsCap
    /\ sstopPc # "SendQuit"
    /\ sfiles' = Tail(sfiles)
    /\ UNCHANGED <<syoung, spool, sjobs, spc, sstopPc, spause, held>>
    /\ UNCHANGED <<pause, fileVars, sendVars, libVars>>

\* s.quit <- true after a quit case: rendezvous with Stop's <-s.quit
SpoolAck ==
    /\ ~Crashed
    /\ spc = "Ack"
    /\ sstopPc = "RecvAck"
    /\ spc' = "Done"
    /\ sstopPc' = "Acked"
    /\ UNCHANGED <<syoung, spool, sjobs, spause, sfiles, held>>
    /\ UNCHANGED <<pause, fileVars, sendVars, libVars>>

\* a parser-worker receives a path from the jobs channel
ParserTake(k) ==
    /\ ~Crashed
    /\ held[k] = 0
    /\ sjobs # <<>>
    /\ held' = [held EXCEPT ![k] = Head(sjobs)]
    /\ sjobs' = Tail(sjobs)
    /\ UNCHANGED <<syoung, spool, spc, sstopPc, spause, sfiles>>
    /\ UNCHANGED <<pause, fileVars, sendVars, libVars>>

\* the parser-worker has consumed the file and deletes it
ParserDelete(k) ==
    /\ ~Crashed
    /\ held[k] > 0
    /\ spool' = spool \ {held[k]}
    /\ syoung' = syoung \ {held[k]}
    /\ held' = [held EXCEPT ![k] = 0]
    /\ UNCHANGED <<sjobs, spc, sstopPc, spause, sfiles>>
    /\ UNCHANGED <<pause, fileVars, sendVars, libVars>>

\* Nagios writes a new perfdata file into the spool directory
SpoolWrite(f) ==
    /\ ~Crashed
    /\ spc # "Absent"
    /\ f \notin spool
    /\ spool' = spool \cup {f}
    /\ syoung' = syoung \cup {f}
    /\ UNCHANGED <<sjobs, spc, sstopPc, spause, sfiles, held>>
    /\ UNCHANGED <<pause, fileVars, sendVars, libVars>>

\* time passes: the modification time of f is now MinFileAge in the past
SpoolAges(f) ==
    /\ ~Crashed
    /\ f \in syoung
    /\ syoung' = syoung \ {f}
    /\ UNCHANGED <<spool, sjobs, spc, sstopPc, spause, sfiles, held>>
    /\ UNCHANGED <<pause, fileVars, sendVars, libVars>>

\* the steps of run while nobody calls Stop, and of its environment
SpoolScanStep ==
    \/ SpoolTick
    \/ SpoolScanDone
    \/ SpoolPushSend
    \/ SpoolPushTimeout
    \/ \E k \in Parsers : ParserTake(k) \/ ParserDelete(k)
    \/ \E f \in SpoolFiles : SpoolWrite(f) \/ SpoolAges(f)

SpoolStep ==
    \/ SpoolScanStep
    \/ SpoolStopCall
    \/ SpoolSelectQuit
    \/ SpoolPushQuit
    \/ SpoolAck

(***************************************************************************)
(* Livestatus connector: connectToLivestatus(query, csv, finished).  A     *)
(* line of the reply is a sequence of characters, a row is the sequence    *)
(* of its cells.  The caller receives from both channels whenever the      *)
(* connector sends (the loop of TestConnectToLivestatus), so a send is     *)
(* one step that appends to what the caller has received.                  *)
(***************************************************************************)
\* lines of a reply in one run
MaxRows == 2

\* the fixed separator of the reply's cells
Separator == ";"

\* the connection types the connector dials
KnownTypes == {"tcp", "file"}

ConnectionTypes == KnownTypes \cup {"udp"}

\* sample lines of a reply: foo;bar as f;b, a single cell, an empty cell
ReplyLines == {<<"f", ";", "b">>, <<"a">>, <<"x", ";", ";", "y">>}

RECURSIVE splitFrom(_, _, _)
splitFrom(line, cell, row) ==
    IF line = <<>> THEN Append(row, cell)
    ELSE IF Head(line) = Separator
         THEN splitFrom(Tail(line), <<>>, Append(row, cell))
         ELSE splitFrom(Tail(line), Append(cell, Head(line)), row)

\* the cells of one line of the reply
Split(line) == splitFrom(line, <<>>, <<>>)

Replies == UNION {[1..n -> ReplyLines] : n \in 0..MaxRows}

\* started: the connector has been called with a query.  failAt = k > 0:
\* the k-th read of the stream fails; failAt = 0: the stream ends cleanly
InitLive(started) ==
    /\ IF started
       THEN /\ live \in [type : ConnectionTypes, dialOK : BOOLEAN,
                         writeOK : BOOLEAN, reply : Replies,
                         failAt : 0..(MaxRows + 1)]
            /\ live.failAt <= Len(live.reply) + 1
       ELSE live = [type |-> "tcp", dialOK |-> FALSE, writeOK |-> FALSE,
                    reply |-> <<>>, failAt |-> 0]
    /\ lpc = IF started THEN "Connect" ELSE "Absent"
    /\ lpos = 0
    /\ csvOut = <<>>
    /\ finished = <<>>

\* open the stream for the connection type; an unknown type or a failed
\* dial sends completion false
LiveConnect ==
    /\ lpc = "Connect"
    /\ IF live.type \in KnownTypes /\ live.dialOK
       THEN /\ lpc' = "Write"
            /\ UNCHANGED finished
       ELSE /\ finished' = Append(finished, FALSE)
            /\ lpc' = "Done"
    /\ UNCHANGED <<live, lpos, csvOut>>
    /\ UNCHANGED <<sendVars, collectVars, helperVars>>

\* write the request block
LiveWrite ==
    /\ lpc = "Write"
    /\ IF live.writeOK
       THEN /\ lpc' = "Read"
            /\ UNCHANGED finished
       ELSE /\ finished' = Append(finished, FALSE)
            /\ lpc' = "Done"
    /\ UNCHANGED <<live, lpos, csvOut>>
    /\ UNCHANGED <<sendVars, collectVars, helperVars>>

\* LiveRead taking a failed read for the end of the stream
LiveReadIgnoresError ==
    /\ lpc = "Read"
    /\ IF live.failAt # lpos + 1 /\ lpos < Len(live.reply)
       THEN /\ csvOut' = Append(csvOut, Split(live.reply[lpos + 1]))
            /\ lpos' = lpos + 1
            /\ UNCHANGED <<lpc, finished>>
       ELSE /\ finished' = Append(finished, TRUE)
            /\ lpc' = "Done"
            /\ UNCHANGED <<lpos, csvOut>>
    /\ UNCHANGED live
    /\ UNCHANGED <<sendVars, collectVars, helperVars>>

\* read the next line: emit its row; at the end of the stream send
\* completion true, on a failed read completion false
LiveRead ==
    /\ lpc = "Read"
    /\ IF live.failAt = lpos + 1
       THEN /\ finished' = Append(finished, FALSE)
            /\ lpc' = "Done"
            /\ UNCHANGED <<lpos, csvOut>>
       ELSE IF lpos < Len(live.reply)
            THEN /\ csvOut' = Append(csvOut, Split(live.reply[lpos + 1]))
                 /\ lpos' = lpos + 1
                 /\ UNCHANGED <<lpc, finished>>
            ELSE /\ finished' = Append(finished, TRUE)
                 /\ lpc' = "Done"
                 /\ UNCHANGED <<lpos, csvOut>>
    /\ UNCHANGED live
    /\ UNCHANGED <<sendVars, collectVars, helperVars>>

LiveStep == LiveConnect \/ LiveWrite \/ LiveRead

(***************************************************************************)
(* helper.SanitizeInfluxInput.  A string is a sequence of characters; the  *)
(* configuration is the one of TestSanitizeInfluxInput.                    *)
(***************************************************************************)
\* length of the strings handed to SanitizeInfluxInput
MaxLen == 3

\* InfluxDBGlobal.NastyString and NastyStringToReplace of the test's config
NastyString == <<"§">>

NastyStringToReplace == <<"S", "S">>

\* the characters of the test table's inputs
Alphabet == {"a", " ", ",", "\"", "\\", "§"}

Inputs == UNION {[1..n -> Alphabet] : n \in 0..MaxLen}

\* s begins with the non-empty sequence old
startsWith(s, old) ==
    Len(s) >= Len(old) /\ SubSeq(s, 1, Len(old)) = old

RECURSIVE Replace(_, _, _)
\* strings.Replace(s, old, new, -1): every non-overlapping occurrence of
\* old, from the left
Replace(s, old, new) ==
    IF s = <<>> THEN <<>>
    ELSE IF startsWith(s, old)
         THEN new \o Replace(SubSeq(s, Len(old) + 1, Len(s)), old, new)
         ELSE <<Head(s)>> \o Replace(Tail(s), old, new)

\* SanitizeInfluxInput without the test for the enclosing double quotes
SanitizeQuotedToo(s) ==
    Replace(Replace(Replace(s, NastyString, NastyStringToReplace),
                    <<" ">>, <<"\\", " ">>),
            <<",">>, <<"\\", ",">>)

\* the empty string and a string enclosed in double quotes are returned
\* as they are; otherwise the NastyString is replaced, then every space
\* and every comma gets a backslash in front
SanitizeInfluxInput(s) ==
    IF Len(s) = 0 THEN s
    ELSE IF s[1] = "\"" /\ s[Len(s)] = "\"" THEN s
    ELSE Replace(Replace(Replace(s, NastyString, NastyStringToReplace),
                         <<" ">>, <<"\\", " ">>),
                 <<",">>, <<"\\", ",">>)

InitHelper(started) ==
    /\ input \in IF started THEN Inputs ELSE {<<>>}
    /\ actual = <<>>
    /\ hpc = IF started THEN "Call" ELSE "Absent"

\* actual := SanitizeInfluxInput(data.input)
CallSanitize ==
    /\ hpc = "Call"
    /\ actual' = SanitizeInfluxInput(input)
    /\ hpc' = "Done"
    /\ UNCHANGED input
    /\ UNCHANGED <<sendVars, collectVars, liveVars>>

(***************************************************************************)
(* Specifications                                                          *)
(***************************************************************************)

NextSend ==
    \/ Offer(MaxRecords)
    \/ \E w \in Workers : WorkerStep(w)

NextPool ==
    \/ Offer(PoolRecords)
    \/ \E w \in Workers : WorkerStep(w)

NextFile == FileStep \/ TogglePause

NextSpool == SpoolStep \/ TogglePause

NextScan == FileScanStep \/ SpoolScanStep \/ TogglePause

\* one sender-worker on the target
SpecSend ==
    /\ InitSend({"w1"}, Umasks) /\ pause = FALSE
    /\ InitFile({}, {NoRows}) /\ InitSpool({}, {})
    /\ InitLive(FALSE) /\ InitHelper(FALSE)
    /\ [][NextSend]_vars

\* one sender-worker whose goroutine is scheduled whenever it can take a
\* step: every probe and every POST returns, every timer fires, a select
\* with a ready case proceeds
SpecStop ==
    /\ InitSend({"w1"}, {Umask022}) /\ pause = FALSE
    /\ InitFile({}, {NoRows}) /\ InitSpool({}, {})
    /\ InitLive(FALSE) /\ InitHelper(FALSE)
    /\ [][NextSend]_vars
    /\ WF_vars(RunStep("w1"))

\* a pool of two sender-workers on the same target
SpecPool ==
    /\ InitSend(Workers, {Umask022}) /\ pause = FALSE
    /\ InitFile({}, {NoRows}) /\ InitSpool({}, {})
    /\ InitLive(FALSE) /\ InitHelper(FALSE)
    /\ [][NextPool]_vars

\* the CSV collector over a folder of dropped files
SpecFile ==
    /\ InitSend({}, {Umask022}) /\ pause = FALSE
    /\ InitFile(Files, FileSamples) /\ InitSpool({}, {})
    /\ InitLive(FALSE) /\ InitHelper(FALSE)
    /\ [][NextFile]_vars

\* the spool scanner and its parser-workers
SpecSpool ==
    /\ InitSend({}, {Umask022}) /\ pause = FALSE
    /\ InitFile({}, {NoRows}) /\ InitSpool(SpoolFiles, Parsers)
    /\ InitLive(FALSE) /\ InitHelper(FALSE)
    /\ [][NextSpool]_vars

\* both scanners under the pause flag, while nobody calls Stop
SpecScan ==
    /\ InitSend({}, {Umask022}) /\ pause = FALSE
    /\ InitFile({1}, {TwoRows}) /\ InitSpool(SpoolFiles, {"p1"})
    /\ InitLive(FALSE) /\ InitHelper(FALSE)
    /\ [][NextScan]_vars

\* one query of the Livestatus connector
SpecLive ==
    /\ InitSend({}, {Umask022}) /\ pause = FALSE
    /\ InitFile({}, {NoRows}) /\ InitSpool({}, {})
    /\ InitLive(TRUE) /\ InitHelper(FALSE)
    /\ [][LiveStep]_vars

\* one call of SanitizeInfluxInput
SpecSanitize ==
    /\ InitSend({}, {Umask022}) /\ pause = FALSE
    /\ InitFile({}, {NoRows}) /\ InitSpool({}, {})
    /\ InitLive(FALSE) /\ InitHelper(TRUE)
    /\ [][CallSanitize]_vars

(***************************************************************************)
(* Properties                                                              *)
(***************************************************************************)

\* number of occurrences of x in the sequence s
Count(s, x) == Cardinality({k \in 1..Len(s) : s[k] = x})

\* C1: after Stop has returned on the sender-worker, every record that was
\* accepted into the result queue has been POSTed successfully or is
\* present in a dump file, whatever state the worker was in when quit
\* arrived.
C1_NoRecordLost ==
    (\A w \in Workers : stopPc[w] \in {"Returned", "Absent"}) =>
        \A r \in 1..produced :
            \/ castJobToString(r) \in posted
            \/ castJobToString(r) \in Range(dumpBase) \cup Range(dumpErrors)

\* C2: when FileCollector.Stop has returned, the value it read from the
\* quit channel was run's acknowledgement, so run has observed quit and
\* has returned.
C2_StopIsRendezvous == fstopPc = "Returned" => fpc = "Done"

\* C3: a flush ends as successful (no error left, nothing retried or
\* spilled) only when the downstream answered 2xx without item errors; a
\* 5xx answer or a connection error leaves an error for the retry path.
C3_SuccessOnlyOn2xx ==
    \A w \in Workers :
        (wpc[w] = "Return" /\ resp[w] \in {"http5xx", "connErr"}) =>
            sendErr[w] # "nil"

\* C4: when the downstream rejects a batch with per-item errors, the
\* sender-worker keeps running (it resends the lines one by one and returns
\* to its receive loop).
C4_MalformedBatchKeepsRunning ==
    \A w \in Workers : resp[w] = "itemErrors" => wpc[w] # "Panicked"

\* the worker has appended its current buffer to <base>
Dumped(w) ==
    /\ lineQueries[w] # <<>>
    /\ toWrite[w].file = "none"
    /\ Range(lineQueries[w]) \subseteq Range(dumpBase)

\* C5: after the quit signal made a worker in the retry wait append its
\* buffer and the drained records to <base>, it leaves the flush: no
\* further POST of the buffer, no second append of a line to <base>, and
\* no line both in <base> and in <base>-errors.
C5_DumpEndsFlush ==
    [][/\ \A w \in Workers :
            (Dumped(w) /\ wpc[w] = "PostRetry") => wpc'[w] = "PostRetry"
       /\ \A l \in Range(dumpBase') :
            Count(dumpBase', l) = 1 /\ l \notin Range(dumpErrors')]_vars

\* the worker is inside dumpQueries
InDump(w) == wpc[w] \in {"DumpStat", "DumpOpen", "DumpWrite"}

\* C6: every append to <base> or <base>-errors is made while the
\* process-wide mutex is held, so no two sender-workers are inside the
\* dump-file write at once.
C6_DumpUnderMutex ==
    /\ \A w \in Workers : InDump(w) => mutex = w
    /\ \A v, w \in Workers : (InDump(v) /\ InDump(w)) => v = w

\* the CSV collector puts a record on a result queue in this step
EnqueuesRecord == \E t \in TargetSet : Len(results'[t]) > Len(results[t])

\* the spool scanner puts a path on the jobs channel in this step
EnqueuesPath == Len(sjobs') > Len(sjobs)

\* C7 (as claimed): while the aggregate pause flag is set, neither scanner
\* enqueues, also when the flag is set during a scan in progress.
C7_NoEnqueueWhilePaused ==
    [][pause => ~(EnqueuesRecord \/ EnqueuesPath)]_vars

\* C7 (amended): each scanner reads the pause flag once per tick, before it
\* lists its directory; every record or path it enqueues belongs to a scan
\* whose tick read the flag as clear, and a tick that reads the flag as set
\* enqueues nothing.
C7_EnqueueOnlyAfterClearTick ==
    [][/\ EnqueuesRecord => ~fpause
       /\ EnqueuesPath => ~spause
       /\ (fpause' /\ fpc' # fpc) => fpc' \in {"Ack", "Done"}
       /\ (spause' /\ spc' # spc) => spc' \in {"Ack", "Done"}]_vars

\* C7 witness: the flag is set, both scanners have read it as set at their
\* latest tick and wait in their select, after earlier scans enqueued.
C7_Witness ==
    /\ pause /\ fpause /\ spause
    /\ fpc = "Select" /\ spc = "Select"
    /\ sjobs # <<>>
    /\ \E t \in TargetSet : results[t] # <<>>

\* the filter of a record admits target t
Admits(filter, t) == filter = AllFilterable \/ filter = t

\* C8: every record in a target's result queue has a filter that admits
\* that target.
C8_FilterAdmitsTarget ==
    \A t \in TargetSet : \A k \in 1..Len(results[t]) :
        Admits(results[t][k].Filter, t)

\* C9: the path of a file that still exists in the spool directory is
\* never in the jobs channel more than once at the same time and is never
\* held by two parser-workers.
C9_JobConsumedOnce ==
    /\ \A f \in spool : Count(sjobs, f) <= 1
    /\ \A j, k \in Parsers : (held[j] > 0 /\ held[j] = held[k]) => j = k

\* C10: the CSV collector removes a file only after it was opened and its
\* CSV parsed successfully.
C10_RemoveOnlyParsed ==
    [][\A f \in Files :
          (dir[f].present /\ ~dir'[f].present) =>
              (dir[f].body.openOK /\ dir[f].body.csvOK)]_vars

\* the downstream answers the claims call transient
Transient == {"http5xx", "connErr"}

\* C11: a flush whose every POST fails with a transient error, with no quit,
\* has made the three re-POSTs of the loop when it ends, has appended the
\* whole buffer to <base>-errors exactly once and nothing to <base>; a flush
\* that ends with an accepted POST has written its buffer to no dump file.
C11_ExhaustedFlushSpillsOnce ==
    \A w \in Workers :
        (wpc[w] = "Return" /\ stopPc[w] = "NotCalled") =>
            /\ pass[w] <= MaxPasses
            /\ resp[w] \in Transient =>
                 /\ pass[w] = MaxPasses
                 /\ \A l \in Range(lineQueries[w]) :
                      Count(dumpErrors, l) = 1 /\ l \notin Range(dumpBase)
            /\ resp[w] = "ok" =>
                 \A l \in Range(lineQueries[w]) :
                      l \notin Range(dumpErrors) \cup Range(dumpBase)

\* the collector is at the inner select with a record in hand
Offering == fpc = "Offer" /\ pIdx <= Len(parsed)

\* the collector gives up the copy it is offering: the loop indices move on
\* and no queue has grown
DropsCopy ==
    /\ Offering
    /\ <<pIdx, tIdx>>' # <<pIdx, tIdx>>
    /\ results'[Targets[tIdx]] = results[Targets[tIdx]]

\* C12: an offer that times out drops only the copy for the one full queue:
\* no queue changes, the same record is offered next to the following target
\* (the next record only after the last target), and the collector stays in
\* its offer loop; a record in hand can always be sent, dropped or left
\* on quit; a quit taken during an offer leads to the acknowledgement.
C12_BackPressureIsolated ==
    /\ [](Offering =>
            ENABLED (FileOfferSend \/ FileOfferTimeout \/ FileOfferQuit))
    /\ [][/\ DropsCopy =>
                /\ Len(results[Targets[tIdx]]) >= QueueCap
                /\ results' = results
                /\ parsed' = parsed /\ fileList' = fileList /\ dir' = dir
                /\ fpc' = "Offer"
                /\ IF tIdx < Len(Targets)
                   THEN pIdx' = pIdx /\ tIdx' = tIdx + 1
                   ELSE pIdx' = pIdx + 1 /\ tIdx' = 1
          /\ (Offering /\ Len(fquit') < Len(fquit) /\ fstopPc' = fstopPc) =>
                fpc' = "Ack"
          /\ (fpc = "Ack" /\ fpc' # "Ack") =>
                (fquit' = Append(fquit, TRUE) /\ fpc' = "Done")]_vars

\* the second row of a file is offered to the second target while the first
\* target's queue is full and ends with the first row: the copy of the
\* second row for the first target was dropped
C12_Witness ==
    /\ Offering
    /\ pIdx = 2 /\ tIdx = 2
    /\ Len(results[Targets[1]]) = QueueCap
    /\ results[Targets[1]][QueueCap] = parsed[1]
    /\ parsed[1] # parsed[2]

\* the cells of the sample files that are decimal numbers
NumericCells == {"17", "18", "19"}

\* C13: every Record parseFile has produced has a non-empty table and a
\* numeric (so non-empty) timestamp.
C13_RecordsHaveTableAndTime ==
    \A k \in 1..Len(parsed) :
        parsed[k].Table # "" /\ parsed[k].Timestamp \in NumericCells

RECURSIVE Join(_)
\* the cells of a row written out with the separator between them
Join(row) ==
    IF Len(row) = 1 THEN row[1]
    ELSE row[1] \o <<Separator>> \o Join(Tail(row))

\* the peer was reached and the stream ended without an error
CleanEnd ==
    /\ live.type \in KnownTypes
    /\ live.dialOK /\ live.writeOK
    /\ live.failAt = 0

\* C14: the rows received are the lines of the reply in reply order, each
\* split on the separator (its cells hold no separator and join back to the
\* line); at most one completion value is sent and nothing follows it; it
\* is true exactly after a clean end of the stream, and then every line of
\* the reply has been emitted; after a dial error or an unknown connection
\* type no row precedes the false.
C14_RowsThenOneCompletion ==
    /\ [](/\ Len(csvOut) <= Len(live.reply)
          /\ \A k \in 1..Len(csvOut) :
               /\ Len(csvOut[k]) >= 1
               /\ Join(csvOut[k]) = live.reply[k]
               /\ \A c \in 1..Len(csvOut[k]) :
                    Separator \notin Range(csvOut[k][c])
          /\ Len(finished) <= 1
          /\ finished # <<>> =>
               /\ finished[1] = CleanEnd
               /\ finished[1] => Len(csvOut) = Len(live.reply)
               /\ (live.type \notin KnownTypes \/ ~live.dialOK) =>
                    csvOut = <<>>)
    /\ [][finished # <<>> => UNCHANGED <<csvOut, finished>>]_vars

\* a reply of two lines was emitted row by row, the second with an empty
\* cell, and completion true followed
C14_Witness ==
    /\ finished = <<TRUE>>
    /\ Len(csvOut) = 2
    /\ csvOut[2] = <<<<"x">>, <<>>, <<"y">>>>

\* the file the CSV collector is working on
currentFile == dir[Head(fileList)].body

LacksRequired(b) ==
    b.openOK /\ b.csvOK /\
        (b.records = <<>> \/ ~Contains(b.records[1], requiredFields))

\* C16: the collector never crashes on a file, and while it works on a
\* file whose header lacks `table` or `time` -- a file without any row
\* included -- it holds no record of that file to offer.
C16_MissingColumnAborts ==
    /\ fpc # "Panicked"
    /\ (fpc = "Offer" /\ LacksRequired(currentFile)) => parsed = <<>>

\* C17: a scan of either directory keeps only files whose modification
\* time is at least MinFileAge in the past: the entries the spool scanner
\* goes on to push and the files the CSV collector goes on to parse are
\* old at the moment of the scan.
C17_ScansSkipYoungFiles ==
    [][/\ (spc = "Select" /\ spc' = "Push") =>
              \A k \in 1..Len(sfiles') : sfiles'[k] \notin syoung
       /\ (fpc = "Select" /\ fpc' = "NextFile") =>
              \A k \in 1..Len(fileList') : dir[fileList'[k]].old]_vars

\* s is an initial segment of t
IsPrefix(s, t) == Len(s) <= Len(t) /\ \A k \in 1..Len(s) : s[k] = t[k]

\* C18: a dump file that comes into existence has the owner-only mode 0600,
\* and every change of a dump file's content is an append: what the file
\* held before is still its beginning afterwards.
C18_DumpOwnerOnlyAppend ==
    [][/\ \A f \in DumpFiles :
             (~dumpMode[f].exists /\ dumpMode'[f].exists) =>
                 dumpMode'[f].mode = OwnerOnly
       /\ IsPrefix(dumpBase, dumpBase')
       /\ IsPrefix(dumpErrors, dumpErrors')]_vars

\* what one character of an unquoted input becomes
Escaped(c) ==
    IF c = " " \/ c = "," THEN <<"\\", c>>
    ELSE IF <<c>> = NastyString THEN NastyStringToReplace
    ELSE <<c>>

RECURSIVE EscapeAll(_)
\* the input escaped character by character
EscapeAll(s) ==
    IF s = <<>> THEN <<>>
    ELSE Escaped(Head(s)) \o EscapeAll(Tail(s))

\* the input begins and ends with a double quote
Quoted(s) == Len(s) > 0 /\ s[1] = "\"" /\ s[Len(s)] = "\""

Receives(w) ==
    /\ Len(jobs') < Len(jobs)
    /\ queries'[w] # queries[w] \/ drained'[w] # drained[w]

\* worker w gets an answer to a POST in this step
Sends(w) == resp'[w] # resp[w] /\ resp'[w] # "none"

\* no worker other than w takes this step
OthersStill(w) ==
    \A v \in Workers \ {w} : wpc'[v] = wpc[v] /\ toWrite'[v] = toWrite[v]

\* worker w waits in waitForExternalQuit
Waiting(w) == wpc[w] \in {"WaitAlive", "WaitSchema"}

\* C20: a worker takes a record from the result queue, and POSTs, only in
\* a loop iteration whose probe found the target alive and the schema
\* present; it waits exactly when the probe found one of them missing;
\* while it waits it receives nothing, sends nothing and writes nothing,
\* and it leaves the wait only for a new probe or, taking the quit from
\* Stop, for the acknowledgement, after which it has exited.
C20_ReceiveOnlyWhenReady ==
    [][\A w \in Workers :
          /\ (Receives(w) \/ Sends(w)) =>
                (probed[w].alive /\ probed[w].exists)
          /\ Waiting(w) =>
                /\ ~(probed[w].alive /\ probed[w].exists)
                /\ ~Receives(w) /\ ~Sends(w)
                /\ queries'[w] = queries[w]
                /\ OthersStill(w) =>
                      (dumpBase' = dumpBase /\ dumpErrors' = dumpErrors)
                /\ wpc'[w] \in {wpc[w], "Probe", "Ack"}
                /\ wpc'[w] = "Ack" =>
                      (stopPc[w] = "SendQuit" /\ stopPc'[w] = "RecvAck")
                /\ wpc'[w] = "Probe" => stopPc'[w] = stopPc[w]
          /\ (wpc[w] = "Ack" /\ wpc'[w] # "Ack") => wpc'[w] = "Done"]_vars

\* the worker waits for the target to come back with a record in its
\* buffer while another record sits in the result queue
C20_Witness ==
    \E w \in Workers :
        /\ Waiting(w)
        /\ queries[w] # <<>>
        /\ jobs # <<>>

\* worker w is between two flushes: at the top of run's loop, in its
\* select or in waitForExternalQuit
BetweenFlushes(w) ==
    wpc[w] \in {"Probe", "Select", "WaitAlive", "WaitSchema"}

\* C21: the buffer of a worker never holds more than the flush threshold
\* and holds less whenever the worker can receive; the buffer changes only
\* by a receive in run's select, which appends the head of the queue and
\* starts the flush when the threshold is reached, and by the return of a
\* flush triggered by the count or by the idle timer, which empties it
\* whatever the flush did.
C21_BufferBoundedAndFlushed ==
    /\ [](\A w \in Workers :
            /\ Len(queries[w]) <= BatchSize
            /\ BetweenFlushes(w) => Len(queries[w]) < BatchSize)
    /\ [][\A w \in Workers :
            /\ (wpc[w] = "Return" /\ wpc'[w] = "Probe") =>
                  queries'[w] = <<>>
            /\ queries'[w] # queries[w] =>
                  \/ wpc[w] = "Return" /\ queries'[w] = <<>>
                  \/ /\ wpc[w] = "Select"
                     /\ jobs # <<>>
                     /\ queries'[w] = Append(queries[w], Head(jobs))
                     /\ jobs' = Tail(jobs)
                     /\ wpc'[w] = IF Len(queries'[w]) = BatchSize
                                  THEN "SendBuffer" ELSE "Probe"]_vars

\* a flush of a full buffer failed and was spilled to <base>-errors in one
\* piece, and the worker has since received the next record into an empty
\* buffer
C21_Witness ==
    \E w \in Workers :
        /\ BetweenFlushes(w)
        /\ queries[w] = <<BatchSize + 1>>
        /\ Len(dumpErrors) = BatchSize + 1
        /\ \A r \in 1..BatchSize : dumpErrors[r + 1] = castJobToString(r)

\* C22: once Stop has sent its internal signal and offers quit, it
\* eventually returns, the worker having sent its acknowledgement and ended.
C22_StopReturns ==
    \A w \in Workers :
        (stopPc[w] = "SendQuit") ~>
            (stopPc[w] = "Returned" /\ wpc[w] = "Done")
====
